---- MODULE Spec2Model ----
(***************************************************************************)
(* Model of the maze_generation crate: the generic Board with its          *)
(* bounds-checked accessors (board.rs), the Pair arithmetic (pair.rs),     *)
(* the Stack (stack.rs) and Maze::from_backtracking with its helpers       *)
(* (maze.rs).                                                              *)
(*                                                                         *)
(* Raw coordinates are 0-based as in the source; the grid itself is a      *)
(* sequence of rows (Vec<Vec<T>>), so the element at raw (r, c) is         *)
(* grid[r + 1][c + 1].                                                     *)
(***************************************************************************)
EXTENDS FiniteSets, Integers, Sequences, TLC

VARIABLES
    height,         \* argument `height` of from_backtracking / Board::new
    width,          \* argument `width` of from_backtracking / Board::new
    board,          \* Board<Tile>
    visited,        \* Board<VisitStatus>
    visited_stack,  \* Stack<Pair>: the sequence `values`
    start,          \* Option<Perimeter> chosen at maze.rs:62
    end,            \* Option<Perimeter> chosen at maze.rs:104
    sides,          \* the local `side` of the two choose_perimeter_pair calls
    pc,             \* position inside from_backtracking (or the probe harness)
    query,          \* argument of the last probed accessor call
    answer          \* result of the last probed accessor call

vars == <<height, width, board, visited, visited_stack, start, end, sides,
          pc, query, answer>>

(***************************************************************************)
(* Bounds of the model.                                                    *)
(***************************************************************************)
\* largest height and width of a generated maze
MaxDim == 3
\* largest height and width of a probed board
\* the stack harness pushes at most this many values
MaxPushes == 4

\* the probes convert the cell positions 0..MaxPosition
MaxPosition == 4

MaxProbeDim == 2

(***************************************************************************)
(* Program constants.                                                      *)
(***************************************************************************)
CELL_STEP == 2
I32_MAX == 2147483647

(***************************************************************************)
(* Option values.                                                          *)
(***************************************************************************)
None == [some |-> FALSE]
Some(v) == [some |-> TRUE, val |-> v]

(***************************************************************************)
(* pair.rs and direction.rs                                                *)
(***************************************************************************)
from_row_and_col(row, col) == [row |-> row, col |-> col]

\* Direction::iter(): the variants in declaration order
DirectionIter == <<"Up", "Right", "Down", "Left">>

Direction == {DirectionIter[i] : i \in 1..Len(DirectionIter)}

\* impl From<Direction> for Pair
PairFrom(direction) ==
    CASE direction = "Down"  -> from_row_and_col(1, 0)
      [] direction = "Left"  -> from_row_and_col(0, -1)
      [] direction = "Up"    -> from_row_and_col(-1, 0)
      [] direction = "Right" -> from_row_and_col(0, 1)

\* impl Add for Pair
PairAdd(lhs, rhs) == [row |-> lhs.row + rhs.row, col |-> lhs.col + rhs.col]

\* impl Mul<Pair> for i32
ScalarMul(k, rhs) == [row |-> rhs.row * k, col |-> rhs.col * k]

(***************************************************************************)
(* board.rs                                                                *)
(***************************************************************************)
\* variant: the offset of the border tile is left out
cell_position_to_index_NoOffset(position) == position * CELL_STEP

cell_position_to_index(position) == position * CELL_STEP + 1

\* vec![vec![T::default(); index(height)]; index(width)]: the outer Vec
\* (the rows) has index(width) elements, each inner Vec index(height).
BoardNew(h, w, default) ==
    [grid        |-> [r \in 1..cell_position_to_index(w) |->
                        [c \in 1..cell_position_to_index(h) |-> default]],
     cell_width  |-> w,
     cell_height |-> h]

\* usize::try_from(i32): fails on a negative value
UsizeTryFrom(v) == IF v < 0 THEN None ELSE Some(v)

\* Vec::get / Vec::get_mut on a sequence: None past the end
VecGet(vec, index) == IF index < Len(vec) THEN Some(index + 1) ELSE None

\* The reference returned is modelled by the place it refers to: the
\* 1-based <<row, column>> position inside grid.  Each step below is one
\* `?` of the source.
RowIndex(pair) == UsizeTryFrom(pair.row)

RowOf(b, pair) == VecGet(b.grid, RowIndex(pair).val)

ColIndex(pair) == UsizeTryFrom(pair.col)

CellOf(b, pair) == VecGet(b.grid[RowOf(b, pair).val], ColIndex(pair).val)

get_from_pair(b, pair) ==
    IF ~RowIndex(pair).some THEN None
    ELSE IF ~RowOf(b, pair).some THEN None
    ELSE IF ~ColIndex(pair).some THEN None
    ELSE IF ~CellOf(b, pair).some THEN None
    ELSE Some(<<RowOf(b, pair).val, CellOf(b, pair).val>>)

\* variant: the column selects the outer Vec and the row the inner one
get_mut_from_pair_Transposed(b, pair) ==
    IF ~ColIndex(pair).some THEN None
    ELSE IF ~VecGet(b.grid, ColIndex(pair).val).some THEN None
    ELSE IF ~RowIndex(pair).some THEN None
    ELSE IF ~VecGet(b.grid[ColIndex(pair).val + 1], RowIndex(pair).val).some
    THEN None
    ELSE Some(<<ColIndex(pair).val + 1, RowIndex(pair).val + 1>>)

get_mut_from_pair(b, pair) ==
    IF ~RowIndex(pair).some THEN None
    ELSE IF ~RowOf(b, pair).some THEN None
    ELSE IF ~ColIndex(pair).some THEN None
    ELSE IF ~CellOf(b, pair).some THEN None
    ELSE Some(<<RowOf(b, pair).val, CellOf(b, pair).val>>)

\* dereferencing a reference obtained from one of the accessors
Deref(b, place) == b.grid[place[1]][place[2]]

\* assigning through a mutable reference
Assign(b, place, value) ==
    [b EXCEPT !.grid[place[1]][place[2]] = value]

(***************************************************************************)
(* stack.rs                                                                *)
(***************************************************************************)
StackNew == <<>>

\* variant: push() puts the value underneath the others
StackPush_Bottom(values, value) == <<value>> \o values

StackPush(values, value) == Append(values, value)

StackTop(values) ==
    IF Len(values) = 0 THEN None ELSE Some(values[Len(values)])

\* the value pop() hands back: values.pop()
StackPopped(values) ==
    IF Len(values) = 0 THEN None ELSE Some(values[Len(values)])

\* variant: pop() empties the stack
StackPop_Clears(values) == StackNew

\* variant: pop() removes the oldest value
StackPop_Front(values) ==
    IF Len(values) = 0 THEN values ELSE Tail(values)

StackPop(values) ==
    IF Len(values) = 0 THEN values ELSE SubSeq(values, 1, Len(values) - 1)

StackEmpty(values) == Len(values) = 0

\* pair.add(CELL_STEP.mul(Pair::from(direction)))
NewPair(pair, direction) ==
    PairAdd(pair, ScalarMul(CELL_STEP, PairFrom(direction)))

(***************************************************************************)
(* maze.rs: helpers of from_backtracking                                   *)
(***************************************************************************)
\* variant: the visit status is set but the tile is left alone
visit_and_mark_as_path_VisitOnly(b, v, pair) ==
    IF ~get_mut_from_pair(b, pair).some
    THEN [ok |-> FALSE, board |-> b, visited |-> v]
    ELSE IF ~get_mut_from_pair(v, pair).some
    THEN [ok |-> FALSE, board |-> b, visited |-> v]
    ELSE [ok |-> TRUE,
          board |-> b,
          visited |-> Assign(v, get_mut_from_pair(v, pair).val, "Visited")]

\* variant: the tile becomes Path but the visit status is left alone
visit_and_mark_as_path_TileOnly(b, v, pair) ==
    IF ~get_mut_from_pair(b, pair).some
    THEN [ok |-> FALSE, board |-> b, visited |-> v]
    ELSE [ok |-> get_mut_from_pair(v, pair).some,
          board |-> Assign(b, get_mut_from_pair(b, pair).val, "Path"),
          visited |-> v]

\* Returns the two boards after the call and whether it returned Some(true).
\* The tile is written before the visit status is looked up.
visit_and_mark_as_path(b, v, pair) ==
    IF ~get_mut_from_pair(b, pair).some
    THEN [ok |-> FALSE, board |-> b, visited |-> v]
    ELSE IF ~get_mut_from_pair(v, pair).some
    THEN [ok |-> FALSE,
          board |-> Assign(b, get_mut_from_pair(b, pair).val, "Path"),
          visited |-> v]
    ELSE [ok |-> TRUE,
          board |-> Assign(b, get_mut_from_pair(b, pair).val, "Path"),
          visited |-> Assign(v, get_mut_from_pair(v, pair).val, "Visited")]

\* the closure of add_maze_entry: the two-step neighbour is off the board
IsOffBoard(pair, b, direction) ==
    ~get_from_pair(b, NewPair(pair, direction)).some

\* Direction::iter().find(..): the first direction, in iteration order,
\* that satisfies the closure
RECURSIVE FindOffBoardDirection(_, _, _)
FindOffBoardDirection(pair, b, i) ==
    IF i > Len(DirectionIter) THEN None
    ELSE IF IsOffBoard(pair, b, DirectionIter[i]) THEN Some(DirectionIter[i])
    ELSE FindOffBoardDirection(pair, b, i + 1)

\* variant: the Entry is written on the perimeter cell itself
EntryCell_OnCell(perimeter_tile, b) ==
    get_mut_from_pair(b, perimeter_tile.pair)

\* variant: the cut is made at the corner below and right of the cell
EntryCell_Corner(perimeter_tile, b) ==
    get_mut_from_pair(b, PairAdd(perimeter_tile.pair, from_row_and_col(1, 1)))

\* the place of the tile between the perimeter cell and the border
EntryCell(perimeter_tile, b) ==
    get_mut_from_pair(b, PairAdd(perimeter_tile.pair,
        PairFrom(FindOffBoardDirection(perimeter_tile.pair, b, 1).val)))

\* variant: the cut is written as Path
add_maze_entry_CutsPath(perimeter_tile, b) ==
    IF ~FindOffBoardDirection(perimeter_tile.pair, b, 1).some THEN b
    ELSE IF ~EntryCell(perimeter_tile, b).some THEN b
    ELSE Assign(b, EntryCell(perimeter_tile, b).val, "Path")

\* Returns the board after the call.
add_maze_entry(perimeter_tile, b) ==
    IF ~FindOffBoardDirection(perimeter_tile.pair, b, 1).some THEN b
    ELSE IF ~EntryCell(perimeter_tile, b).some THEN b
    ELSE Assign(b, EntryCell(perimeter_tile, b).val, "Entry")

\* variant: the filter never reaches the last direction of the iteration
get_unvisited_directions_SkipsLeft(pair, v) ==
    {direction \in Direction \ {DirectionIter[Len(DirectionIter)]} :
        \E visit_status_of_new_pair \in
                {get_from_pair(v, NewPair(pair, direction))} :
           IF ~visit_status_of_new_pair.some THEN FALSE
           ELSE Deref(v, visit_status_of_new_pair.val) = "Unvisited"}

get_unvisited_directions(pair, v) ==
    {direction \in Direction :
        \E visit_status_of_new_pair \in
                {get_from_pair(v, NewPair(pair, direction))} :
           IF ~visit_status_of_new_pair.some THEN FALSE
           ELSE Deref(v, visit_status_of_new_pair.val) = "Unvisited"}

\* variant: always the first candidate in iteration order
choose_random_unvisited_direction_First(pair, v) ==
    UNION {IF direction_choices = {} THEN {None}
           ELSE {Some(DirectionIter[i]) :
                   i \in {j \in 1..Len(DirectionIter) :
                            /\ DirectionIter[j] \in direction_choices
                            /\ \A k \in 1..(j - 1) :
                                  DirectionIter[k] \notin direction_choices}}
           : direction_choices \in {get_unvisited_directions(pair, v)}}

\* The possible results of slice::choose over the candidate set
choose_random_unvisited_direction(pair, v) ==
    UNION {IF direction_choices = {} THEN {None}
           ELSE {Some(d) : d \in direction_choices}
           : direction_choices \in {get_unvisited_directions(pair, v)}}

(***************************************************************************)
(* maze.rs: choose_perimeter_pair.  An evaluation yields a value           *)
(* (kind "some"), None propagated by `?` (kind "none") or a panic.         *)
(***************************************************************************)
Panic == [kind |-> "panic"]
Absent == [kind |-> "none"]
Value(v) == [kind |-> "some", val |-> v]

\* i32::try_from(cell_position_to_index(value)).ok()
unsigned_to_signed_cell(value) ==
    IF cell_position_to_index(value) <= I32_MAX
    THEN Value(cell_position_to_index(value)) ELSE Absent

\* thread_rng().gen_range(0..max) panics on the empty range 0..0
pick_random_cell(max) ==
    IF max = 0 THEN {Panic}
    ELSE {unsigned_to_signed_cell(value) : value \in 0..(max - 1)}

\* unsigned_to_signed_cell(n.sub(1)): 0usize - 1 panics when overflow checks
\* are compiled in; otherwise it wraps to usize::MAX, whose index wraps to
\* usize::MAX as well and does not fit an i32.
last_cell(n) ==
    IF n = 0 THEN {Panic, Absent} ELSE {unsigned_to_signed_cell(n - 1)}

\* `let row = ..?; let col = ..?; Some(Perimeter {..})`: row is evaluated first
PerimeterOf(side, rows, cols) ==
    UNION {IF r.kind # "some" THEN {r}
           ELSE {IF c.kind # "some" THEN c
                 ELSE [kind |-> "some", side |-> side,
                       val |-> [pair |-> from_row_and_col(r.val, c.val)]]
                 : c \in cols}
           : r \in rows}

choose_perimeter_pair(b) ==
    UNION {CASE side = "Down" ->
                   PerimeterOf(side, last_cell(b.cell_height),
                                     pick_random_cell(b.cell_width))
             [] side = "Left" ->
                   PerimeterOf(side, pick_random_cell(b.cell_height),
                                     {unsigned_to_signed_cell(0)})
             [] side = "Up" ->
                   PerimeterOf(side, {unsigned_to_signed_cell(0)},
                                     pick_random_cell(b.cell_width))
             [] side = "Right" ->
                   PerimeterOf(side, pick_random_cell(b.cell_height),
                                     last_cell(b.cell_width))
           : side \in Direction}

(***************************************************************************)
(* maze.rs: from_backtracking                                              *)
(***************************************************************************)
Init ==
    /\ height \in 0..MaxDim
    /\ width \in 0..MaxDim
    /\ board = BoardNew(height, width, "Wall")
    /\ visited = BoardNew(height, width, "Unvisited")
    /\ visited_stack = StackNew
    /\ start = None
    /\ end = None
    /\ sides = <<>>
    /\ pc = "choose_start"
    /\ query = None
    /\ answer = None

\* maze.rs:62-69
ChooseStart ==
    /\ pc = "choose_start"
    /\ \E o \in choose_perimeter_pair(board) :
         IF o.kind = "panic"
         THEN /\ pc' = "panic"
              /\ UNCHANGED <<board, visited, visited_stack, start, sides>>
         ELSE IF o.kind = "none"
         THEN /\ pc' = "absent"
              /\ UNCHANGED <<board, visited, visited_stack, start, sides>>
         ELSE \E entered \in {add_maze_entry(o.val, board)} :
              \E marked \in {visit_and_mark_as_path(entered, visited,
                                                     o.val.pair)} :
                 /\ start' = Some(o.val)
                 /\ sides' = Append(sides, o.side)
                 /\ visited_stack' = StackPush(visited_stack, o.val.pair)
                 /\ board' = marked.board
                 /\ visited' = marked.visited
                 /\ pc' = IF marked.ok THEN "loop" ELSE "absent"
    /\ UNCHANGED <<height, width, end, query, answer>>

\* variant: the wall between the two cells is left standing
Carve_NoWall ==
    /\ pc = "loop"
    /\ ~StackEmpty(visited_stack)
    /\ \E popped_pair \in {StackTop(visited_stack).val} :
       \E choice \in choose_random_unvisited_direction(popped_pair, visited) :
         /\ choice.some
         /\ \E direction \in {choice.val} :
            \E new_pair \in {NewPair(popped_pair, direction)} :
            \E in_between_pair \in {new_pair} :
            \E first \in {visit_and_mark_as_path(board, visited, new_pair)} :
            \E second \in {visit_and_mark_as_path(first.board, first.visited,
                                                   in_between_pair)} :
               /\ visited_stack' = StackPush(visited_stack, new_pair)
               /\ IF ~first.ok
                  THEN /\ board' = first.board
                       /\ visited' = first.visited
                       /\ pc' = "absent"
                  ELSE /\ board' = second.board
                       /\ visited' = second.visited
                       /\ pc' = IF second.ok THEN "loop" ELSE "absent"
    /\ UNCHANGED <<height, width, start, end, sides, query, answer>>

\* variant: the wall is removed on the far side of the new cell
Carve_WrongWall ==
    /\ pc = "loop"
    /\ ~StackEmpty(visited_stack)
    /\ \E popped_pair \in {StackTop(visited_stack).val} :
       \E choice \in choose_random_unvisited_direction(popped_pair, visited) :
         /\ choice.some
         /\ \E direction \in {choice.val} :
            \E new_pair \in {NewPair(popped_pair, direction)} :
            \E in_between_pair \in {PairAdd(new_pair, PairFrom(direction))} :
            \E first \in {visit_and_mark_as_path(board, visited, new_pair)} :
            \E second \in {visit_and_mark_as_path(first.board, first.visited,
                                                   in_between_pair)} :
               /\ visited_stack' = StackPush(visited_stack, new_pair)
               /\ IF ~first.ok
                  THEN /\ board' = first.board
                       /\ visited' = first.visited
                       /\ pc' = "absent"
                  ELSE /\ board' = second.board
                       /\ visited' = second.visited
                       /\ pc' = IF second.ok THEN "loop" ELSE "absent"
    /\ UNCHANGED <<height, width, start, end, sides, query, answer>>

\* maze.rs:71-72, 86-101: a direction was chosen
Carve ==
    /\ pc = "loop"
    /\ ~StackEmpty(visited_stack)
    /\ \E popped_pair \in {StackTop(visited_stack).val} :
       \E choice \in choose_random_unvisited_direction(popped_pair, visited) :
         /\ choice.some
         /\ \E direction \in {choice.val} :
            \E new_pair \in {NewPair(popped_pair, direction)} :
            \E in_between_pair \in {PairAdd(popped_pair, PairFrom(direction))} :
            \E first \in {visit_and_mark_as_path(board, visited, new_pair)} :
            \E second \in {visit_and_mark_as_path(first.board, first.visited,
                                                   in_between_pair)} :
               /\ visited_stack' = StackPush(visited_stack, new_pair)
               /\ IF ~first.ok
                  THEN /\ board' = first.board
                       /\ visited' = first.visited
                       /\ pc' = "absent"
                  ELSE /\ board' = second.board
                       /\ visited' = second.visited
                       /\ pc' = IF second.ok THEN "loop" ELSE "absent"
    /\ UNCHANGED <<height, width, start, end, sides, query, answer>>

\* variant: the finished cell and the one beneath it are both removed
Backtrack_PopsTwice ==
    /\ pc = "loop"
    /\ ~StackEmpty(visited_stack)
    /\ \E popped_pair \in {StackTop(visited_stack).val} :
         /\ None \in choose_random_unvisited_direction(popped_pair, visited)
         /\ \E marked \in {visit_and_mark_as_path(board, visited,
                                                   popped_pair)} :
               /\ visited_stack' = StackPop(StackPop(visited_stack))
               /\ board' = marked.board
               /\ visited' = marked.visited
               /\ pc' = IF marked.ok THEN "loop" ELSE "absent"
    /\ UNCHANGED <<height, width, start, end, sides, query, answer>>

\* variant: the finished cell is left on the stack
Backtrack_NoPop ==
    /\ pc = "loop"
    /\ ~StackEmpty(visited_stack)
    /\ \E popped_pair \in {StackTop(visited_stack).val} :
         /\ None \in choose_random_unvisited_direction(popped_pair, visited)
         /\ \E marked \in {visit_and_mark_as_path(board, visited,
                                                   popped_pair)} :
               /\ visited_stack' = visited_stack
               /\ board' = marked.board
               /\ visited' = marked.visited
               /\ pc' = IF marked.ok THEN "loop" ELSE "absent"
    /\ UNCHANGED <<height, width, start, end, sides, query, answer>>

\* variant: the popped cell is handed back as Unvisited
Backtrack_Unvisits ==
    /\ pc = "loop"
    /\ ~StackEmpty(visited_stack)
    /\ \E popped_pair \in {StackTop(visited_stack).val} :
         /\ None \in choose_random_unvisited_direction(popped_pair, visited)
         /\ \E marked \in {visit_and_mark_as_path(board, visited,
                                                   popped_pair)} :
               /\ visited_stack' = StackPop(visited_stack)
               /\ board' = marked.board
               /\ visited' = Assign(marked.visited,
                                    get_mut_from_pair(marked.visited,
                                                      popped_pair).val,
                                    "Unvisited")
               /\ pc' = IF marked.ok THEN "loop" ELSE "absent"
    /\ UNCHANGED <<height, width, start, end, sides, query, answer>>

\* maze.rs:71-84: no direction was chosen
Backtrack ==
    /\ pc = "loop"
    /\ ~StackEmpty(visited_stack)
    /\ \E popped_pair \in {StackTop(visited_stack).val} :
         /\ None \in choose_random_unvisited_direction(popped_pair, visited)
         /\ \E marked \in {visit_and_mark_as_path(board, visited,
                                                   popped_pair)} :
               /\ visited_stack' = StackPop(visited_stack)
               /\ board' = marked.board
               /\ visited' = marked.visited
               /\ pc' = IF marked.ok THEN "loop" ELSE "absent"
    /\ UNCHANGED <<height, width, start, end, sides, query, answer>>

\* maze.rs:71: the loop condition fails
LoopExit ==
    /\ pc = "loop"
    /\ StackEmpty(visited_stack)
    /\ pc' = "choose_end"
    /\ UNCHANGED <<height, width, board, visited, visited_stack, start, end,
                   sides, query, answer>>

\* maze.rs:104-109
ChooseEnd ==
    /\ pc = "choose_end"
    /\ \E o \in choose_perimeter_pair(board) :
         IF o.kind = "panic"
         THEN /\ pc' = "panic"
              /\ UNCHANGED <<board, visited, end, sides>>
         ELSE IF o.kind = "none"
         THEN /\ pc' = "absent"
              /\ UNCHANGED <<board, visited, end, sides>>
         ELSE \E marked \in {visit_and_mark_as_path(board, visited,
                                                     o.val.pair)} :
                 /\ end' = Some(o.val)
                 /\ sides' = Append(sides, o.side)
                 /\ visited' = marked.visited
                 /\ IF marked.ok
                    THEN /\ board' = add_maze_entry(o.val, marked.board)
                         /\ pc' = "done"
                    ELSE /\ board' = marked.board
                         /\ pc' = "absent"
    /\ UNCHANGED <<height, width, visited_stack, start, query, answer>>

Next ==
    \/ ChooseStart
    \/ Carve
    \/ Backtrack
    \/ LoopExit
    \/ ChooseEnd

Spec == Init /\ [][Next]_vars

\* The carve loop is not suspended: while the stack is not empty its body
\* runs, and it is left once the stack is empty.
FairSpec == Spec /\ WF_vars(Carve \/ Backtrack \/ LoopExit)

\* from_backtracking(MaxDim, MaxDim + 1): the smallest board on which the two
\* dimensions differ and both leave room for a cell off the outermost ring
InitWide ==
    /\ height = MaxDim
    /\ width = MaxDim + 1
    /\ board = BoardNew(height, width, "Wall")
    /\ visited = BoardNew(height, width, "Unvisited")
    /\ visited_stack = StackNew
    /\ start = None
    /\ end = None
    /\ sides = <<>>
    /\ pc = "choose_start"
    /\ query = None
    /\ answer = None

SpecWide == InitWide /\ [][Next]_vars

(***************************************************************************)
(* Harness for the accessors and get_unvisited_directions, after           *)
(* test_maze::test_get_univisited_directions: a fresh Board<VisitStatus>,  *)
(* a pair, neighbours of the pair marked Visited through                   *)
(* get_mut_from_pair, and the functions applied to the pair.               *)
(***************************************************************************)
\* the pairs from which a step of at most CELL_STEP can land on the board
ProbePairs(b) ==
    {from_row_and_col(r, c) :
        r \in (0 - CELL_STEP)..(Len(b.grid) - 1 + CELL_STEP),
        c \in (0 - CELL_STEP)..((IF Len(b.grid) = 0 THEN 0
                                 ELSE Len(b.grid[1])) - 1 + CELL_STEP)}

InitProbe ==
    /\ height \in 0..MaxProbeDim
    /\ width \in 0..MaxProbeDim
    /\ board = BoardNew(height, width, "Wall")
    /\ visited = BoardNew(height, width, "Unvisited")
    /\ visited_stack = StackNew
    /\ start = None
    /\ end = None
    /\ sides = <<>>
    /\ pc = "probe"
    /\ query \in {Some(pair) : pair \in ProbePairs(visited)}
    /\ answer = None

\* maze.rs:282-286, 291-295:
\* if let Some(cell) = board.get_mut_from_pair(..) { *cell = Visited }
ProbeMark(direction, steps) ==
    /\ pc = "probe"
    /\ \E cell \in {get_mut_from_pair(visited,
                        PairAdd(query.val,
                                ScalarMul(steps, PairFrom(direction))))} :
         /\ cell.some
         /\ visited' = Assign(visited, cell.val, "Visited")
    /\ answer' = None
    /\ UNCHANGED <<height, width, board, visited_stack, start, end, sides,
                   pc, query>>

\* board.rs:111-134: both accessors applied to the same pair
ProbeGet ==
    /\ pc = "probe"
    /\ answer' = [op |-> "get",
                  shared |-> get_from_pair(visited, query.val),
                  exclusive |-> get_mut_from_pair(visited, query.val)]
    /\ UNCHANGED <<height, width, board, visited, visited_stack, start, end,
                   sides, pc, query>>

\* maze.rs:280, 289, 298-301
ProbeDirections ==
    /\ pc = "probe"
    /\ answer' = [op |-> "directions",
                  val |-> get_unvisited_directions(query.val, visited)]
    /\ UNCHANGED <<height, width, board, visited, visited_stack, start, end,
                   sides, pc, query>>

\* board.rs:60, Board::<i32>::cell_position_to_index(4)
ProbeIndex(position) ==
    /\ pc = "probe"
    /\ answer' = [op |-> "index", arg |-> position,
                  val |-> cell_position_to_index(position)]
    /\ UNCHANGED <<height, width, board, visited, visited_stack, start, end,
                   sides, pc, query>>

NextProbe ==
    \/ \E direction \in Direction, steps \in 1..CELL_STEP :
          ProbeMark(direction, steps)
    \/ ProbeGet
    \/ ProbeDirections
    \/ \E position \in 0..MaxPosition : ProbeIndex(position)

SpecProbe == InitProbe /\ [][NextProbe]_vars

(***************************************************************************)
(* Vocabulary of the properties.                                           *)
(***************************************************************************)
RawRows(b) == Len(b.grid)

RawCols(b) == IF Len(b.grid) = 0 THEN 0 ELSE Len(b.grid[1])

\* raw positions of the board, 0-based
Positions(b) == {from_row_and_col(r, c) : r \in 0..(RawRows(b) - 1),
                                          c \in 0..(RawCols(b) - 1)}

At(b, p) == b.grid[p.row + 1][p.col + 1]

IsOdd(n) == n % 2 = 1

CellCenters(b) == {p \in Positions(b) : IsOdd(p.row) /\ IsOdd(p.col)}

InBetweens(b) == {p \in Positions(b) : IsOdd(p.row) # IsOdd(p.col)}

OnBorder(b, p) ==
    \/ p.row = 0 \/ p.row = RawRows(b) - 1
    \/ p.col = 0 \/ p.col = RawCols(b) - 1

Adjacent(p, q) ==
    \E d \in Direction : q = PairAdd(p, PairFrom(d))

Returned == pc = "done"

(***************************************************************************)
(* Properties.                                                             *)
(***************************************************************************)

\* C1: from_backtracking(height, width) with height = 0 or width = 0 returns
\* None for every outcome of the random side choice and never faults (no
\* draw from the empty range 0..0, no unsigned underflow of cell_height - 1
\* or cell_width - 1).
C1_ZeroExtentReturnsAbsent ==
    (height = 0 \/ width = 0) => pc \in {"choose_start", "absent"}

\* C2: for height >= 1 and width >= 1 the Tile-Grid of Board::new(height,
\* width) and of a returned Maze has exactly 2*height+1 rows and every row
\* has exactly 2*width+1 columns.
C2_GridIsHeightByWidth ==
    (height >= 1 /\ width >= 1 /\ pc \in {"choose_start", "done"}) =>
        /\ Len(board.grid) = 2 * height + 1
        /\ \A r \in 1..Len(board.grid) : Len(board.grid[r]) = 2 * width + 1

\* C3: for height >= 1 and width >= 1 and every outcome of the random
\* choices from_backtracking returns a maze: it never returns None (and
\* never faults) because every bounds-checked access is on the grid.
C3_NonDegenerateNeverAbsent ==
    (height >= 1 /\ width >= 1) => pc \notin {"absent", "panic"}

\* C4: for height >= 1 and width >= 1 the carve loop terminates: every
\* iteration that stays in the loop either pushes a cell that was Unvisited
\* and is now Visited, or pops the stack, and from every state of the loop
\* the stack eventually becomes empty or generation returns None.
C4_CarveLoopTerminates ==
    /\ [][(pc = "loop" /\ pc' = "loop" /\ height >= 1 /\ width >= 1) =>
            \/ /\ Len(visited_stack') = Len(visited_stack) + 1
               /\ SubSeq(visited_stack', 1, Len(visited_stack)) = visited_stack
               /\ At(visited, visited_stack'[Len(visited_stack')]) = "Unvisited"
               /\ At(visited', visited_stack'[Len(visited_stack')]) = "Visited"
            \/ /\ Len(visited_stack') = Len(visited_stack) - 1
               /\ visited_stack' = SubSeq(visited_stack, 1, Len(visited_stack) - 1)
          ]_vars
    /\ (pc = "loop" /\ height >= 1 /\ width >= 1)
          ~> (pc = "absent" \/ (pc = "choose_end" /\ StackEmpty(visited_stack)))

C4_Witness ==
    /\ pc = "choose_end"
    /\ StackEmpty(visited_stack)
    /\ height >= 2
    /\ width >= 2

\* C5: when the carve loop ends with an empty stack, every cell center of
\* the grid (odd raw row and odd raw column) is Visited and its tile is Path.
C5_AllCellsVisited ==
    (pc = "choose_end" /\ StackEmpty(visited_stack)) =>
        \A p \in CellCenters(board) :
            At(visited, p) = "Visited" /\ At(board, p) = "Path"

C5_Witness ==
    /\ pc = "choose_end"
    /\ StackEmpty(visited_stack)
    /\ Cardinality(CellCenters(board)) >= 4

CarvedWalls(b) == {p \in InBetweens(b) : At(b, p) = "Path"}

VisitedCells(v) == {p \in CellCenters(v) : At(v, p) = "Visited"}

\* C6: in every state of the carve loop and in the returned maze the number
\* of carved inter-cell walls (Path tiles with exactly one odd raw
\* coordinate) equals the number of Visited cell centers minus 1.
C6_SpanningTreeCount ==
    pc \in {"loop", "choose_end", "done"} =>
        Cardinality(CarvedWalls(board)) =
            Cardinality(VisitedCells(visited)) - 1

C6_Witness ==
    /\ Returned
    /\ Cardinality(CarvedWalls(board)) >= 3

\* the on-board orthogonal neighbours of p that are Path or Entry
OpenNeighbours(b, p) ==
    {q \in {PairAdd(p, PairFrom(d)) : d \in Direction} :
        /\ q.row >= 0 /\ q.row < RawRows(b)
        /\ q.col >= 0 /\ q.col < RawCols(b)
        /\ At(b, q) \in {"Path", "Entry"}}

\* the positions reachable from `frontier` over orthogonally adjacent
\* Path/Entry tiles, given the positions already `seen`
RECURSIVE Flood(_, _, _)
Flood(b, seen, frontier) ==
    IF frontier = {} THEN seen
    ELSE Flood(b, seen \cup frontier,
               UNION {OpenNeighbours(b, p) : p \in frontier}
                   \ (seen \cup frontier))

\* C7: in every state of the carve loop and in the returned maze every
\* Visited cell center is reachable from the start cell by moving between
\* orthogonally adjacent Path/Entry tiles.
C7_VisitedCellsConnected ==
    pc \in {"loop", "choose_end", "done"} =>
        VisitedCells(visited) \subseteq Flood(board, {}, {start.val.pair})

C7_Witness ==
    /\ Returned
    /\ Cardinality(VisitedCells(visited)) >= 4

EntryTiles(b) == {p \in Positions(b) : At(b, p) = "Entry"}

\* C8: every maze returned for height, width >= 1 contains at least one and
\* at most two Entry tiles, every Entry tile lies on the outer border of the
\* grid, and every Entry tile is orthogonally adjacent to a Path cell center.
C8_EntryTilesOnBorder ==
    (Returned /\ height >= 1 /\ width >= 1) =>
        /\ Cardinality(EntryTiles(board)) \in 1..2
        /\ \A p \in EntryTiles(board) :
              /\ OnBorder(board, p)
              /\ \E q \in CellCenters(board) :
                    Adjacent(p, q) /\ At(board, q) = "Path"

\* the raw position two steps from p in the given direction
TwoSteps(p, d) ==
    CASE d = "Up"    -> from_row_and_col(p.row - 2, p.col)
      [] d = "Right" -> from_row_and_col(p.row, p.col + 2)
      [] d = "Down"  -> from_row_and_col(p.row + 2, p.col)
      [] d = "Left"  -> from_row_and_col(p.row, p.col - 2)

InsideGrid(b, p) ==
    /\ 0 <= p.row /\ p.row < RawRows(b)
    /\ 0 <= p.col /\ p.col < RawCols(b)

\* C9: get_unvisited_directions(pair, visited) returns exactly the
\* directions d of {Up, Right, Down, Left} whose two-step neighbour
\* pair + 2*offset(d) is inside the grid and Unvisited there.
C9_UnvisitedDirectionsExact ==
    (pc = "probe" /\ answer # None /\ answer.op = "directions") =>
        answer.val = {d \in {"Up", "Right", "Down", "Left"} :
                        /\ InsideGrid(visited, TwoSteps(query.val, d))
                        /\ At(visited, TwoSteps(query.val, d)) = "Unvisited"}

\* the scenario of the test: Left and Right neighbours Visited, Up and Down
\* on the grid and Unvisited
C9_Witness ==
    /\ pc = "probe" /\ answer # None /\ answer.op = "directions"
    /\ \A d \in Direction : InsideGrid(visited, TwoSteps(query.val, d))
    /\ At(visited, TwoSteps(query.val, "Left")) = "Visited"
    /\ At(visited, TwoSteps(query.val, "Right")) = "Visited"
    /\ answer.val = {"Up", "Down"}

\* C10: get_from_pair(pair) and get_mut_from_pair(pair) return a value if
\* and only if 0 <= pair.row < raw row count and 0 <= pair.col < raw column
\* count, return no value otherwise, and address the same element (the one
\* at that row and column) for the same pair.
C10_AccessorsBoundsChecked ==
    (pc = "probe" /\ answer # None /\ answer.op = "get") =>
        /\ answer.shared.some <=> InsideGrid(visited, query.val)
        /\ answer.exclusive.some <=> InsideGrid(visited, query.val)
        /\ answer.shared = answer.exclusive
        /\ answer.shared.some =>
              answer.shared.val = <<query.val.row + 1, query.val.col + 1>>

C10_Witness ==
    /\ pc = "probe" /\ answer # None /\ answer.op = "get"
    /\ query.val.col < 0
    /\ query.val.row = RawRows(visited) - 1
    /\ ~answer.shared.some
    /\ ~answer.exclusive.some

IsEven(n) == n % 2 = 0

\* the positions with even raw row and even raw column strictly inside the
\* border
InnerCorners(b) ==
    {p \in Positions(b) : IsEven(p.row) /\ IsEven(p.col) /\ ~OnBorder(b, p)}

\* C11: in every generated maze every tile whose raw row and raw column are
\* both even and that lies strictly inside the border is Wall or Path,
\* never Entry.
C11_InnerCornersNeverEntry ==
    Returned =>
        \A p \in InnerCorners(board) : At(board, p) \in {"Wall", "Path"}

C11_Witness ==
    /\ Returned
    /\ InnerCorners(board) # {}
    /\ EntryTiles(board) # {}

(***************************************************************************)
(* Stack<T> on its own: a harness that drives new, push, top, pop and      *)
(* empty as the examples of stack.rs do.  visited_stack is the stack under *)
(* test, query remembers for every value still on the stack the stack as   *)
(* it was before the push, answer records the last call.                   *)
(***************************************************************************)
StackValues == {1, 2}

InitStack ==
    /\ height = 0
    /\ width = 0
    /\ board = <<>>
    /\ visited = <<>>
    /\ visited_stack = StackNew
    /\ start = None
    /\ end = None
    /\ sides = <<>>
    /\ pc = "stack"
    /\ query = <<>>
    /\ answer = [op |-> "new", result |-> None, before |-> StackNew,
                 matching |-> None, pushes |-> 0, pops |-> 0]

StackPushStep(value) ==
    /\ pc = "stack"
    /\ answer.pushes < MaxPushes
    /\ visited_stack' = StackPush(visited_stack, value)
    /\ query' = Append(query, [before |-> visited_stack, value |-> value])
    /\ answer' = [op |-> "push", result |-> Some(value),
                  before |-> visited_stack, matching |-> None,
                  pushes |-> answer.pushes + 1, pops |-> answer.pops]
    /\ UNCHANGED <<height, width, board, visited, start, end, sides, pc>>

StackTopStep ==
    /\ pc = "stack"
    /\ answer' = [op |-> "top", result |-> StackTop(visited_stack),
                  before |-> visited_stack, matching |-> None,
                  pushes |-> answer.pushes, pops |-> answer.pops]
    /\ UNCHANGED <<height, width, board, visited, visited_stack, start, end,
                   sides, pc, query>>

StackPopStep ==
    /\ pc = "stack"
    /\ \E popped \in {StackPopped(visited_stack)} :
         /\ visited_stack' = StackPop(visited_stack)
         /\ query' = IF popped.some THEN SubSeq(query, 1, Len(query) - 1)
                     ELSE query
         /\ answer' = [op |-> "pop", result |-> popped,
                       before |-> visited_stack,
                       matching |-> IF popped.some
                                    THEN Some(query[Len(query)]) ELSE None,
                       pushes |-> answer.pushes,
                       pops |-> IF popped.some THEN answer.pops + 1
                                ELSE answer.pops]
    /\ UNCHANGED <<height, width, board, visited, start, end, sides, pc>>

NextStack ==
    \/ \E value \in StackValues : StackPushStep(value)
    \/ StackTopStep
    \/ StackPopStep

SpecStack == InitStack /\ [][NextStack]_vars

\* C12: Stack is last-in-first-out.  After push(x), top() would return x and
\* the stack is not empty; a pop() on a non-empty stack returns the most
\* recently pushed value that was not popped yet and leaves the stack as it
\* was before that push; top() and pop() on an empty stack return no value
\* and pop() leaves it empty; empty() holds exactly when as many values were
\* popped as were pushed.
C12_StackIsLifo ==
    /\ answer.op = "push" =>
          /\ StackTop(visited_stack) = answer.result
          /\ ~StackEmpty(visited_stack)
    /\ answer.op = "top" =>
          IF StackEmpty(answer.before) THEN answer.result = None
          ELSE /\ answer.result.some
               /\ answer.result.val = query[Len(query)].value
    /\ answer.op = "pop" =>
          IF StackEmpty(answer.before)
          THEN answer.result = None /\ StackEmpty(visited_stack)
          ELSE /\ answer.result.some
               /\ answer.result.val = answer.matching.val.value
               /\ visited_stack = answer.matching.val.before
    /\ StackEmpty(visited_stack) <=> answer.pushes = answer.pops

C12_Witness ==
    /\ answer.op = "pop"
    /\ answer.result.some
    /\ Len(visited_stack) >= 2
    /\ answer.result.val # visited_stack[1]
    /\ answer.pops >= 2

\* C13: cell_position_to_index(n) is 2n+1: position 0 maps to index 1, the
\* next position maps two further, position 4 maps to 9; distinct positions
\* map to distinct indices, and the positions 0..k-1 map onto exactly the
\* odd indices 1, 3, ..., 2k-1.
C13_IndexIsTwiceNPlusOne ==
    (pc = "probe" /\ answer # None /\ answer.op = "index") =>
        /\ answer.val = 2 * answer.arg + 1
        /\ answer.arg = 0 => answer.val = 1
        /\ answer.arg = 4 => answer.val = 9
        /\ cell_position_to_index(answer.arg + 1) = answer.val + 2
        /\ \A other \in 0..MaxPosition :
              cell_position_to_index(other) = answer.val => other = answer.arg
        /\ {cell_position_to_index(n) : n \in 0..(answer.arg - 1)} =
              {i \in 0..(2 * answer.arg) : IsOdd(i)}

C13_Witness ==
    /\ pc = "probe" /\ answer # None /\ answer.op = "index"
    /\ answer.arg = 4
    /\ answer.val = 9

OneStep(p, d) ==
    CASE d = "Up"    -> from_row_and_col(p.row - 1, p.col)
      [] d = "Right" -> from_row_and_col(p.row, p.col + 1)
      [] d = "Down"  -> from_row_and_col(p.row + 1, p.col)
      [] d = "Left"  -> from_row_and_col(p.row, p.col - 1)

\* a step of the carving loop that writes a grid or lengthens the stack
IsCarveStep ==
    /\ pc = "loop"
    /\ \/ board' # board
       \/ visited' # visited
       \/ Len(visited_stack') > Len(visited_stack)

\* C14: a carve step from the top cell current in direction d makes the
\* tiles at next = current + 2*offset(d) and between = current + offset(d)
\* Path and Visited, pushes next so that it is the new top with current
\* directly beneath, and changes no other tile, no other visit status and
\* no other stack entry.
C14_CarveFrame ==
    [][IsCarveStep =>
        \E d \in {"Up", "Right", "Down", "Left"} :
          \E current \in {visited_stack[Len(visited_stack)]} :
          \E next \in {TwoSteps(current, d)} :
          \E between \in {OneStep(current, d)} :
            /\ pc' = "loop"
            /\ InsideGrid(board, next) /\ InsideGrid(board, between)
            /\ At(board', next) = "Path" /\ At(board', between) = "Path"
            /\ At(visited', next) = "Visited"
            /\ At(visited', between) = "Visited"
            /\ visited_stack' = Append(visited_stack, next)
            /\ visited_stack'[Len(visited_stack') - 1] = current
            /\ Positions(board') = Positions(board)
            /\ Positions(visited') = Positions(visited)
            /\ \A p \in Positions(board) \ {next, between} :
                  At(board', p) = At(board, p)
            /\ \A p \in Positions(visited) \ {next, between} :
                  At(visited', p) = At(visited, p)]_vars

\* three carve steps have acted: the stack holds the start and three more
C14_Witness ==
    /\ pc = "loop"
    /\ Len(visited_stack) >= 4
    /\ At(board, visited_stack[Len(visited_stack)]) = "Path"

\* C15: in every state of the carving loop the bottom stack entry is the
\* start cell, the entries are pairwise distinct cell centers that are
\* Visited, and each entry differs from the one beneath it by exactly 2
\* along exactly one axis, with the tile between the two being Path.
C15_StackIsCarvedPath ==
    (pc = "loop" /\ Len(visited_stack) >= 1) =>
        /\ start.some
        /\ visited_stack[1] = start.val.pair
        /\ \A i \in 1..Len(visited_stack) :
              /\ visited_stack[i] \in CellCenters(visited)
              /\ At(visited, visited_stack[i]) = "Visited"
        /\ \A i, j \in 1..Len(visited_stack) :
              i # j => visited_stack[i] # visited_stack[j]
        /\ \A i \in 2..Len(visited_stack) :
              \E d \in {"Up", "Right", "Down", "Left"} :
                 /\ visited_stack[i] = TwoSteps(visited_stack[i - 1], d)
                 /\ At(board, OneStep(visited_stack[i - 1], d)) = "Path"

\* a stack that turns a corner after a backtrack has happened
C15_Witness ==
    /\ pc = "loop"
    /\ Len(visited_stack) >= 3
    /\ visited_stack[3].row # visited_stack[1].row
    /\ visited_stack[3].col # visited_stack[1].col
    /\ Cardinality({p \in CellCenters(visited) : At(visited, p) = "Visited"})
          > Len(visited_stack)

\* C16: the visit status only ever goes from Unvisited to Visited: a Visited
\* position stays Visited in every step, and a cell center that is pushed
\* is Unvisited before the step and Visited after it, so that no cell
\* center is pushed twice.
C16_VisitedIsMonotonic ==
    [][/\ Positions(visited') = Positions(visited)
       /\ \A p \in Positions(visited) :
             At(visited, p) = "Visited" => At(visited', p) = "Visited"
       /\ Len(visited_stack') > Len(visited_stack) =>
             \E pushed \in {visited_stack'[Len(visited_stack')]} :
                /\ Len(visited_stack') = Len(visited_stack) + 1
                /\ InsideGrid(visited, pushed) =>
                      /\ At(visited, pushed) = "Unvisited"
                      /\ At(visited', pushed) = "Visited"]_vars

\* a cell was pushed, popped again, and is still Visited while the loop
\* goes on from a cell beneath it
C16_Witness ==
    /\ pc = "loop"
    /\ Len(visited_stack) >= 1
    /\ \E p \in CellCenters(visited) :
          /\ At(visited, p) = "Visited"
          /\ \A i \in 1..Len(visited_stack) : visited_stack[i] # p

\* C17: the tile grid starts all Wall, and tiles only ever leave Wall: in no
\* step does a Path or Entry tile become Wall again, and no Entry tile
\* becomes Path nor a Path tile Entry.
C17_TilesOnlyLeaveWall ==
    /\ [](pc = "choose_start" =>
            \A p \in Positions(board) : At(board, p) = "Wall")
    /\ [][/\ Positions(board') = Positions(board)
           /\ \A p \in Positions(board) :
                 At(board, p) # "Wall" => At(board', p) = At(board, p)]_vars

\* both kinds of tile have been written and the second entry was placed
\* on a board that already held Path and Entry tiles
C17_Witness ==
    /\ Returned
    /\ Cardinality(EntryTiles(board)) = 2
    /\ \E p \in Positions(board) : At(board, p) = "Path"
    /\ \E p \in Positions(board) : At(board, p) = "Wall"

\* the directions whose two-step neighbour is on the grid and Unvisited
Candidates(v, p) ==
    {d \in {"Up", "Right", "Down", "Left"} :
        /\ InsideGrid(v, TwoSteps(p, d))
        /\ At(v, TwoSteps(p, d)) = "Unvisited"}

\* C18: for the top cell of the loop, choose_random_unvisited_direction
\* returns no direction exactly when the candidate set is empty; otherwise
\* it returns a member of the set and every member is a possible result.
\* The loop pops exactly when no direction is returned and pushes the
\* two-step neighbour in a candidate direction otherwise.
C18_ChoiceIsAnyCandidate ==
    /\ []((pc = "loop" /\ ~StackEmpty(visited_stack)) =>
            \E top \in {visited_stack[Len(visited_stack)]} :
              choose_random_unvisited_direction(top, visited) =
                 IF Candidates(visited, top) = {} THEN {None}
                 ELSE {Some(d) : d \in Candidates(visited, top)})
    /\ [][(pc = "loop" /\ ~StackEmpty(visited_stack)) =>
            \E top \in {visited_stack[Len(visited_stack)]} :
              IF Candidates(visited, top) = {}
              THEN visited_stack' =
                      SubSeq(visited_stack, 1, Len(visited_stack) - 1)
              ELSE \E d \in Candidates(visited, top) :
                      visited_stack' =
                         Append(visited_stack, TwoSteps(top, d))]_vars

\* a loop state whose top cell has more than one candidate direction
C18_Witness ==
    /\ pc = "loop"
    /\ Len(visited_stack) >= 2
    /\ Cardinality(Candidates(visited,
                              visited_stack[Len(visited_stack)])) >= 2

\* the pair lies in the outermost ring of cells: a two-step neighbour is
\* off the grid
InOuterRing(b, p) ==
    \E d \in {"Up", "Right", "Down", "Left"} : ~InsideGrid(b, TwoSteps(p, d))

IsPerimeterCell(b, p) ==
    /\ InsideGrid(b, p)
    /\ IsOdd(p.row) /\ IsOdd(p.col)
    /\ InOuterRing(b, p)

\* C19: for height >= 1 and width >= 1 every pair returned by
\* choose_perimeter_pair, for the start and for the end, is a cell center
\* inside the grid (odd row, odd column, within bounds) that lies in the
\* outermost ring of cells.
C19_PerimeterPairInOuterRing ==
    (height >= 1 /\ width >= 1) =>
        /\ start.some => IsPerimeterCell(board, start.val.pair)
        /\ end.some => IsPerimeterCell(board, end.val.pair)

\* the border line of a side
OnSide(b, p, side) ==
    CASE side = "Up"    -> p.row = 0
      [] side = "Down"  -> p.row = RawRows(b) - 1
      [] side = "Left"  -> p.col = 0
      [] side = "Right" -> p.col = RawCols(b) - 1

\* C20: the Entry tile cut for a perimeter cell lies on the border of the
\* side that was chosen for it: after the start was chosen every Entry
\* tile lies on the border line of the start's side, and in a returned
\* maze every Entry tile lies on the border line of the start's side or
\* of the end's side.
C20_EntryOnChosenSide ==
    (height >= 1 /\ width >= 1) =>
        /\ (pc = "loop" /\ Len(sides) = 1) =>
              \A e \in EntryTiles(board) : OnSide(board, e, sides[1])
        /\ (Returned /\ Len(sides) = 2) =>
              \A e \in EntryTiles(board) :
                 OnSide(board, e, sides[1]) \/ OnSide(board, e, sides[2])

\* C21: in every state between steps of the generation the two grids have
\* the same positions, a position is Visited exactly when its tile is
\* Path, and the positions whose tile is Wall or Entry are Unvisited.
C21_VisitedIffPath ==
    pc \in {"choose_start", "loop", "choose_end", "done", "absent"} =>
        /\ Positions(visited) = Positions(board)
        /\ \A p \in Positions(board) :
              /\ At(visited, p) = "Visited" <=> At(board, p) = "Path"
              /\ At(board, p) \in {"Wall", "Entry"} =>
                    At(visited, p) = "Unvisited"

\* mid-generation: cells and a carved in-between are Path and Visited while
\* an Entry and Walls are on the board
C21_Witness ==
    /\ pc = "loop"
    /\ EntryTiles(board) # {}
    /\ \E p \in InBetweens(board) :
          At(board, p) = "Path" /\ At(visited, p) = "Visited"
    /\ \E p \in CellCenters(board) :
          At(board, p) = "Wall" /\ At(visited, p) = "Unvisited"

\* C22: the outer border stays closed.  In every state of the generation
\* and in the returned maze every tile in the first or last raw row or
\* column is Wall or Entry, never Path, and every Path tile is a cell
\* center or an in-between position (exactly one odd coordinate) strictly
\* inside the border.
C22_BorderStaysClosed ==
    \A p \in Positions(board) :
        /\ OnBorder(board, p) => At(board, p) \in {"Wall", "Entry"}
        /\ At(board, p) = "Path" =>
              /\ ~OnBorder(board, p)
              /\ IsOdd(p.row) \/ IsOdd(p.col)

\* a returned maze of at least four cells, all carved, with an Entry cut
C22_Witness ==
    /\ Returned
    /\ Cardinality(CellCenters(board)) >= 4
    /\ \A p \in CellCenters(board) : At(board, p) = "Path"
    /\ \E p \in EntryTiles(board) : OnBorder(board, p)

OnStack(values, p) == \E i \in 1..Len(values) : values[i] = p

\* a cell center that was pushed and popped: Visited and off the stack
Done(p) == At(visited, p) = "Visited" /\ ~OnStack(visited_stack, p)

\* C23: when the top cell has no unvisited two-step neighbour the step
\* removes exactly the top stack entry and leaves the tile grid and the
\* visit status grid unchanged, the popped cell being Path and Visited
\* already; and a cell that was popped (Visited and off the stack) is
\* never on the stack again.
C23_BacktrackFrame ==
    [][/\ (pc = "loop" /\ ~StackEmpty(visited_stack)) =>
             \E top \in {visited_stack[Len(visited_stack)]} :
               Candidates(visited, top) = {} =>
                  /\ visited_stack' =
                        SubSeq(visited_stack, 1, Len(visited_stack) - 1)
                  /\ board' = board
                  /\ visited' = visited
                  /\ pc' = "loop"
                  /\ At(board, top) = "Path"
                  /\ At(visited, top) = "Visited"
                  /\ ~OnStack(visited_stack', top)
       /\ \A p \in Positions(visited) :
             (IsOdd(p.row) /\ IsOdd(p.col) /\ Done(p)) =>
                ~OnStack(visited_stack', p)]_vars

\* a backtrack has popped a cell and the next step backtracks again
C23_Witness ==
    /\ pc = "loop"
    /\ Len(visited_stack) >= 2
    /\ Candidates(visited, visited_stack[Len(visited_stack)]) = {}
    /\ \E p \in CellCenters(visited) : Done(p)

====
